---- MODULE Spec2Model ----
(***************************************************************************)
(* Model of the timelapse encoding job (src/encode_timelapse.py) together  *)
(* with the part of the camera monitor (src/prusalink_timelapse.py) that   *)
(* feeds it: the frame directory, the output directory, and the runs of    *)
(* main() step by step.                                                    *)
(*                                                                         *)
(* A frame file frame_<timestamp>.jpg is modelled by its timestamp, a      *)
(* natural number: the names have a fixed width, so the lexical order of   *)
(* the names is the numeric order of the timestamps.                       *)
(*                                                                         *)
(* Environment assumptions: unlinking a file the run created itself (the   *)
(* temporary video, the list file) succeeds; shutil.move inside one        *)
(* directory is a rename (atomic, replaces an existing target).            *)
(***************************************************************************)
EXTENDS Naturals, Sequences, FiniteSets

\* ---- bounds of the model ----
\* Frames the capture process writes in one behaviour.
MaxFrames == 3
\* Runs of the encoding job in one behaviour.
MaxRuns == 2
\* The value given for --frames (the program's default is 240).
ReqCount == 2
\* Frames the monitoring loop saves at most.
MaxSaved == 481
\* Distinct snapshots the camera can return, and distinct MD5 values they have.
NumImages == 3
NumHashes == 2
\* Days the speed scheduler is followed over.
MaxDays == 2
\* Changes of the local clock (daylight saving) within those days.
MaxClockChanges == 1

Runs == 1..MaxRuns
FrameIds == 1..MaxFrames

VARIABLES
    dirExists,      \* the timelapse directory exists
    captured,       \* number of frames the capture process has written so far
    frames,         \* frame files present in the timelapse directory
    outDirExists,   \* the output directory exists
    files,          \* the output directory: path -> content
    listFile,       \* run -> its ffmpeg concat list file exists
    pc,             \* run -> position in main()
    ret,            \* run -> value returned by main(): 0, 1, or NoRet
    keep,           \* run -> args.keep_frames
    batch,          \* run -> frames_to_encode (a sorted sequence)
    idx,            \* run -> position of safe_delete_frames in the batch
    \* ---- history of each run, read only by the properties ----
    dirAtStart,     \* run -> the timelapse directory existed when the run started
    listing,        \* run -> set of frames present when the run listed them
    finalsAtStart,  \* run -> the output directory when the run listed the frames
    encOut,         \* run -> how the encode call ended
    probeOut,       \* run -> how the ffprobe call ended
    probeCount,     \* run -> packet count the probe reported
    decOut,         \* run -> how the decode call ended
    verifyRes,      \* run -> how verify_video was left: "true", "false", "raised"
    moveOut,        \* run -> how shutil.move ended
    moved,          \* run -> shutil.move has returned
    deletedBy,      \* run -> frames the run has unlinked
    delFailed,      \* run -> frames whose unlink raised
    retryOf,        \* run -> the run before it failed at encode or verification
                    \*        and this run listed the same frames
    published       \* set of [run, path, batch, verified]: every completed move

\* run_monitoring_loop: its position, its locals, the trigger_encoding calls
\* made, the jobs Popen started and those still running, the hash of the
\* snapshot last written, and what the latest iteration of the loop did.
VARIABLES monPc, last_hash, printer_was_offline, frame_count, triggers,
          launched, jobsRunning, lastSaved, poll

monVars == <<monPc, last_hash, printer_was_offline, frame_count, triggers,
             launched, jobsRunning, lastSaved, poll>>

\* speed_scheduler: its position, the configured hour, the local time at the
\* top of the loop (seconds since midnight of the day it started), its flag,
\* the speed the printer last accepted; and what it has sent: the nighttime
\* commands and whether the printer accepted, and for the day of `now` the
\* daytime commands sent, accepted and refused, and whether the loop was
\* running before the day's TARGET_HOUR:01; the days on which a daytime
\* command was accepted; how often the local clock was set forward or back;
\* and whether the loop has slept yet.
VARIABLES schedPc, TARGET_HOUR, now, speed_changed, printerSpeed, nightSent,
          nightOk, daySent, dayOk, dayFailed, covered, okDays, clockChanges,
          slept

schedVars == <<schedPc, TARGET_HOUR, now, speed_changed, printerSpeed, nightSent,
               nightOk, daySent, dayOk, dayFailed, covered, okDays,
               clockChanges, slept>>

vars == <<schedVars, monVars, dirExists, captured, frames, outDirExists, files, listFile, pc, ret,
          keep, batch, idx, dirAtStart, listing, finalsAtStart, encOut,
          probeOut, probeCount, decOut, verifyRes, moveOut, moved, deletedBy,
          delFailed, retryOf, published>>

fsVars == <<dirExists, captured, frames, outDirExists, files, listFile>>
histVars == <<dirAtStart, listing, finalsAtStart, encOut, probeOut, probeCount, decOut,
              verifyRes,
              moveOut, moved, deletedBy, delFailed, retryOf, published>>

\* Exit statuses main() returns (sys.exit(main())).
ExitOk == 0
ExitFail == 1
\* main() has not returned.
NoRet == ExitFail + 1

\* ---- files of the output directory ----
TmpPath(r) == <<"tmp", r>>
FinalPaths == {<<"final", f>> : f \in FrameIds}
Paths == {TmpPath(r) : r \in Runs} \cup FinalPaths

NoFile == [exists |-> FALSE, batch |-> <<>>, packets |-> 0, clean |-> FALSE,
           complete |-> FALSE]
\* NamedTemporaryFile(delete=False): an empty file.
EmptyFile == [exists |-> TRUE, batch |-> <<>>, packets |-> 0, clean |-> FALSE,
              complete |-> FALSE]
\* What ffmpeg has written while it runs, or when it did not exit with 0.
PartialVideo(b) == [exists |-> TRUE, batch |-> b, packets |-> 0,
                    clean |-> FALSE, complete |-> FALSE]
\* What ffmpeg leaves when it exits with 0: the container is finished; it holds
\* one packet per frame or one packet fewer (a frame it could not read), and it
\* decodes without diagnostics or not.
EncodedVideos(b) ==
    {[exists |-> TRUE, batch |-> b, packets |-> n, clean |-> c, complete |-> TRUE] :
        n \in {Len(b), Len(b) - 1}, c \in BOOLEAN}

\* A video that holds every frame of its batch and decodes cleanly.
GoodVideo(v) == v.exists /\ v.complete /\ v.packets = Len(v.batch) /\ v.clean

\* ---- get_sorted_frames ----
Min(S) == CHOOSE m \in S : \A x \in S : m <= x

RECURSIVE SortedSeq(_)
SortedSeq(S) == IF S = {} THEN <<>> ELSE <<Min(S)>> \o SortedSeq(S \ {Min(S)})

get_sorted_frames(present) == SortedSeq(present)

SeqSet(s) == {s[i] : i \in 1..Len(s)}

\* ---- decisions of main(), one operator per line of code ----
\* len(all_frames) < args.frames is the no-op case.
EnoughFramesOffByOne(all, n) == Len(all) + 1 >= n
EnoughFrames(all, n) == Len(all) >= n

\* frames_to_encode = all_frames
SelectFrames(all, n) == all

\* output_file = output_dir / f"timelapse_{frames_to_encode[0].stem}.mp4"
FinalPath(b) == <<"final", Head(b)>>

\* encode_frames(frames_to_encode, tmp_path, ...): where ffmpeg writes.
EncodeToFinal(r, b) == FinalPath(b)
EncodeOutputPath(r, b) == TmpPath(r)

\* verify_video: actual_frames != expected_frames fails the verification.
CountAnyAccepted(actual, expected) == TRUE
CountMatches(actual, expected) == actual = expected

\* verify_video: result.returncode != 0 or result.stderr fails the verification.
DecodePasses(out) == out = "ok"

\* Outcomes of the external calls.
EncodeOutcomes == {"ok", "nonzero", "timeout", "oserror"}
\* ffprobe: exit 0 with a parseable count; CalledProcessError; TimeoutExpired;
\* JSONDecodeError; KeyError; ValueError; IndexError (empty stream list);
\* OSError (the tool cannot be started).
ProbeOutcomes == {"ok", "nonzero", "timeout", "badjson", "keyerror",
                  "valueerror", "indexerror", "oserror"}
\* The exceptions verify_video catches and turns into False.
ProbeCaught == {"nonzero", "timeout", "badjson", "keyerror", "valueerror"}
DecodeOutcomes == {"ok", "nonzero", "stderr", "timeout", "oserror"}
\* Decode outcomes verify_video turns into False: the test of line 84 and the
\* TimeoutExpired of the except clause.
DecodeCaught == {"nonzero", "stderr", "timeout"}

\* subprocess.run is given a timeout for every external tool: timeout=300 for
\* the encode, timeout=30 for ffprobe, timeout=60 for the decode pass. Without
\* one, a call ends only when the tool ends by itself.
NoTimeout == FALSE
EncodeHasTimeout == TRUE
ProbeHasTimeout == TRUE
DecodeHasTimeout == TRUE

\* main(): the step after verify_video returned True.
StepAfterVerifyDeleteFirst(k) == IF k THEN "move" ELSE "delete"
StepAfterVerify(k) == "move"

\* main(): the step after the delete loop, or after the move with --keep-frames.
StepAfterMoveIgnoreKeep(k) == "delete"
StepAfterMove(k) == IF k THEN "finally" ELSE "delete"

\* main: safe_delete_frames(frames_to_encode): the loop walks over the batch
\* the run selected, not over what the directory holds by then.
RelistedFrames(b, present) == get_sorted_frames(present)
DeleteList(b, present) == b

\* safe_delete_frames: the loop goes on to the next frame whether or not the
\* unlink raised.
NextIndexStopOnFailure(i, ok, n) == IF ok THEN i + 1 ELSE n + 1
NextIndex(i, ok, n) == i + 1

\* encode_frames, finally: concat_file.unlink(missing_ok=True)
KeepListFile(lf, r) == lf
UnlinkListFile(lf, r) == [lf EXCEPT ![r] = FALSE]

\* main, finally: tmp_path.unlink(missing_ok=True)
KeepTmp(fs, r) == fs
UnlinkTmp(fs, r) == [fs EXCEPT ![TmpPath(r)] = NoFile]

\* ---- run_monitoring_loop: snapshots, hashes and decisions ----
\* Trigger encoding every 240 frames.
TriggerEvery == 240

\* get_snapshot returned None or an empty body: "if not image_bytes".
NoSnapshot == 0
Images == 1..NumImages

\* calculate_image_hash: MD5 of the bytes; different snapshots can have the
\* same hash.
calculate_image_hash(img) == img % NumHashes
\* last_hash = None
NoHash == NumHashes

\* "if current_hash != last_hash": the snapshot is handed to save_image.
ImageChanged(current, last) == current # last

\* last_hash after the iteration, whatever save_image returned.
RememberUnsaved(saved, current, last) == current

\* "if saved_path: last_hash = current_hash".
RememberHash(saved, current, last) == IF saved THEN current ELSE last

\* The trigger taken out of the "if saved_path" block.
TriggerIgnoringSave(saved, count) == count % TriggerEvery = 0

\* "if saved_path: ... if frame_count % 240 == 0: trigger_encoding(...)".
ShouldTrigger(saved, count) == saved /\ count % TriggerEvery = 0

\* trigger_encoding: Popen started the job; the script is missing (return);
\* Popen raised (logged).
LaunchOutcomes == {"started", "noscript", "popenerror"}

\* What the latest iteration did: nothing yet; no snapshot; the hash could
\* not be computed; the hash equals last_hash; save_image returned None;
\* save_image returned the path.
PollOutcomes == {"none", "offline", "hasherror", "unchanged", "savefailed", "saved"}
NoPoll == [outcome |-> "none", image |-> NoSnapshot, prevHash |-> NoHash,
           prevCount |-> 0, triggered |-> FALSE]

\* ---- speed_scheduler: configuration, clock and decisions ----
\* SPEED_CHANGE_HOUR: the default, and the first and last hour of a day.
DefaultTargetHour == 3
TargetHours == {0, DefaultTargetHour, 23}
DAYTIME_SPEED == 200
NIGHTTIME_SPEED == 100
\* The printer's speed before any command was accepted.
UnknownSpeed == 0

\* time.sleep(30); requests.post(..., timeout=10).
SleepSeconds == 30
RequestTimeout == 10
\* datetime.now(): naive local time.
SecondsPerMinute == 60
MinutesPerHour == 60
HoursPerDay == 24
SecondsPerHour == MinutesPerHour * SecondsPerMinute
SecondsPerDay == HoursPerDay * SecondsPerHour

\* now.hour, now.minute, and the time of day in seconds.
Hour(t) == (t \div SecondsPerHour) % HoursPerDay
Minute(t) == (t \div SecondsPerMinute) % MinutesPerHour
Day(t) == t \div SecondsPerDay
TimeOfDay(t) == t % SecondsPerDay

\* How long set_print_speed takes: at once, a connect timeout, a connect
\* delay and then a read timeout.
RequestDurations == {0, RequestTimeout, 2 * RequestTimeout}

\* The daytime command whenever it is TARGET_HOUR:00, flag or not.
SendIgnoringFlag(h, m, changed, target) == h = target /\ m = 0

\* "if current_hour == TARGET_HOUR and current_minute == 0 and not speed_changed"
ShouldSend(h, m, changed, target) == h = target /\ m = 0 /\ ~changed

\* The flag is never reset.
NeverReset(h, m, changed, target) == FALSE

\* "if current_hour == TARGET_HOUR and current_minute == 1 and speed_changed"
ShouldReset(h, m, changed, target) == h = target /\ m = 1 /\ changed

\* "gone": a run that ended before the latest run started. Its process is
\* gone and so is what the model remembers of it; what it did to the
\* directories stays, and what it published stays in the variable published.
Terminal == {"done", "raised", "killed", "gone"}
Running == {"mkdir", "mktemp", "concat", "ffmpeg", "encoding", "probe",
            "decode", "move", "delete", "finally"}

Init ==
    /\ dirExists = FALSE
    /\ captured = 0
    /\ frames = {}
    /\ outDirExists = FALSE
    /\ files = [p \in Paths |-> NoFile]
    /\ listFile = [r \in Runs |-> FALSE]
    /\ pc = [r \in Runs |-> "init"]
    /\ ret = [r \in Runs |-> NoRet]
    /\ keep = [r \in Runs |-> FALSE]
    /\ batch = [r \in Runs |-> <<>>]
    /\ idx = [r \in Runs |-> 0]
    /\ dirAtStart = [r \in Runs |-> FALSE]
    /\ listing = [r \in Runs |-> {}]
    /\ finalsAtStart = [r \in Runs |-> [p \in Paths |-> NoFile]]
    /\ encOut = [r \in Runs |-> "none"]
    /\ probeOut = [r \in Runs |-> "none"]
    /\ probeCount = [r \in Runs |-> 0]
    /\ decOut = [r \in Runs |-> "none"]
    /\ verifyRes = [r \in Runs |-> "none"]
    /\ moveOut = [r \in Runs |-> "none"]
    /\ moved = [r \in Runs |-> FALSE]
    /\ retryOf = [r \in Runs |-> FALSE]
    /\ deletedBy = [r \in Runs |-> {}]
    /\ delFailed = [r \in Runs |-> {}]
    /\ published = {}
    /\ monPc = "off"
    /\ last_hash = NoHash
    /\ printer_was_offline = FALSE
    /\ frame_count = 0
    /\ triggers = 0
    /\ launched = 0
    /\ jobsRunning = 0
    /\ lastSaved = NoHash
    /\ poll = NoPoll
    /\ schedPc = "off"
    /\ TARGET_HOUR = DefaultTargetHour
    /\ now = 0
    /\ speed_changed = FALSE
    /\ printerSpeed = UnknownSpeed
    /\ nightSent = 0
    /\ nightOk = FALSE
    /\ daySent = 0
    /\ dayOk = 0
    /\ dayFailed = 0
    /\ covered = FALSE
    /\ okDays = 0
    /\ clockChanges = 0
    /\ slept = FALSE

\* ---- the camera monitor ----
\* setup(): Path(TIMELAPSE_DIR).mkdir(exist_ok=True)
MonitorSetup ==
    /\ UNCHANGED <<monVars, schedVars>>
    /\ ~dirExists
    /\ dirExists' = TRUE
    /\ UNCHANGED <<captured, frames, outDirExists, files, listFile, pc, ret,
                   keep, batch, idx, histVars>>

\* save_image(): a new frame file, named by the current time.
SaveImage ==
    /\ UNCHANGED <<monVars, schedVars>>
    /\ dirExists
    /\ captured < MaxFrames
    /\ captured' = captured + 1
    /\ frames' = frames \cup {captured + 1}
    /\ UNCHANGED <<dirExists, outDirExists, files, listFile, pc, ret, keep,
                   batch, idx, histVars>>

\* ---- main() of the encoding job, run r ----
\* The run returned 1 because the encode (the ffmpeg call of encode_frames)
\* or verify_video failed.
FailedAtEncodeOrVerify(q) ==
    /\ pc[q] = "done"
    /\ encOut[q] \in EncodeOutcomes
    /\ moveOut[q] = "none"
    /\ decOut[q] # "ok"

\* verify_video returned True in run q: the probe reported the expected count
\* and the decode pass ended with exit 0 and no diagnostics.
Verified(q) ==
    /\ probeOut[q] = "ok"
    /\ probeCount[q] = Len(batch[q])
    /\ decOut[q] = "ok"

\* f without what it holds for the runs that have ended.
Forget(f, blank) == [q \in Runs |-> IF pc[q] \in Terminal THEN blank ELSE f[q]]

\* Lines 195-214: parse the arguments, check the directory, list the frames,
\* decide whether there are enough, select the batch.
MainListFrames(r) ==
    /\ UNCHANGED <<monVars, schedVars>>
    /\ pc[r] = "init"
    /\ \A q \in Runs : q < r => pc[q] # "init"
    /\ \E k \in BOOLEAN : keep' = [Forget(keep, FALSE) EXCEPT ![r] = k]
    /\ dirAtStart' = [Forget(dirAtStart, FALSE) EXCEPT ![r] = dirExists]
    /\ listing' = [Forget(listing, {}) EXCEPT ![r] = frames]
    /\ finalsAtStart' = [Forget(finalsAtStart, [p \in Paths |-> NoFile])
                            EXCEPT ![r] = files]
    /\ retryOf' = [Forget(retryOf, FALSE) EXCEPT ![r] =
                      \E q \in Runs : /\ q + 1 = r
                                      /\ FailedAtEncodeOrVerify(q)
                                      /\ listing[q] = frames]
    /\ LET all == get_sorted_frames(frames) IN
         IF ~dirExists
           THEN /\ pc' = [Forget(pc, "gone") EXCEPT ![r] = "done"]
                /\ ret' = [Forget(ret, NoRet) EXCEPT ![r] = ExitFail]
                /\ batch' = Forget(batch, <<>>)
           ELSE IF ~EnoughFrames(all, ReqCount)
             THEN /\ pc' = [Forget(pc, "gone") EXCEPT ![r] = "done"]
                  /\ ret' = [Forget(ret, NoRet) EXCEPT ![r] = ExitOk]
                  /\ batch' = Forget(batch, <<>>)
             ELSE /\ pc' = [Forget(pc, "gone") EXCEPT ![r] = "mkdir"]
                  /\ batch' = [Forget(batch, <<>>) EXCEPT ![r] =
                                   SelectFrames(all, ReqCount)]
                  /\ ret' = Forget(ret, NoRet)
    /\ idx' = Forget(idx, 0)
    /\ encOut' = Forget(encOut, "none")
    /\ probeOut' = Forget(probeOut, "none")
    /\ probeCount' = Forget(probeCount, 0)
    /\ decOut' = Forget(decOut, "none")
    /\ verifyRes' = Forget(verifyRes, "none")
    /\ moveOut' = Forget(moveOut, "none")
    /\ moved' = Forget(moved, FALSE)
    /\ deletedBy' = Forget(deletedBy, {})
    /\ delFailed' = Forget(delFailed, {})
    /\ UNCHANGED <<fsVars, published>>

\* Line 217: args.output_dir.mkdir(exist_ok=True), outside the try block.
MainMkdir(r) ==
    /\ UNCHANGED <<monVars, schedVars>>
    /\ pc[r] = "mkdir"
    /\ \/ /\ outDirExists' = TRUE
          /\ pc' = [pc EXCEPT ![r] = "mktemp"]
       \/ /\ ~outDirExists
          /\ UNCHANGED outDirExists
          /\ pc' = [pc EXCEPT ![r] = "raised"]
    /\ UNCHANGED <<dirExists, captured, frames, files, listFile, ret, keep,
                   batch, idx, histVars>>

\* Lines 224-225: tempfile.NamedTemporaryFile(suffix='.mp4', delete=False,
\* dir=args.output_dir), outside the try block.
MainMkTemp(r) ==
    /\ UNCHANGED <<monVars, schedVars>>
    /\ pc[r] = "mktemp"
    /\ \/ /\ files' = [files EXCEPT ![TmpPath(r)] = EmptyFile]
          /\ pc' = [pc EXCEPT ![r] = "concat"]
       \/ /\ UNCHANGED files
          /\ pc' = [pc EXCEPT ![r] = "raised"]
    /\ UNCHANGED <<dirExists, captured, frames, outDirExists, listFile, ret,
                   keep, batch, idx, histVars>>

\* encode_frames, lines 103-107: create and write the concat list file, before
\* the try block of line 109. A failure here is an exception that main's
\* except clause turns into return 1: either the file could not be created,
\* or it was created (delete=False) and writing it failed, and then it stays.
EncodeWriteList(r) ==
    /\ UNCHANGED <<monVars, schedVars>>
    /\ pc[r] = "concat"
    /\ \/ /\ listFile' = [listFile EXCEPT ![r] = TRUE]
          /\ pc' = [pc EXCEPT ![r] = "ffmpeg"]
          /\ UNCHANGED <<ret, encOut>>
       \/ /\ UNCHANGED listFile
          /\ encOut' = [encOut EXCEPT ![r] = "listfail"]
          /\ ret' = [ret EXCEPT ![r] = ExitFail]
          /\ pc' = [pc EXCEPT ![r] = "finally"]
       \/ /\ listFile' = [listFile EXCEPT ![r] = TRUE]
          /\ encOut' = [encOut EXCEPT ![r] = "listwritefail"]
          /\ ret' = [ret EXCEPT ![r] = ExitFail]
          /\ pc' = [pc EXCEPT ![r] = "finally"]
    /\ UNCHANGED <<dirExists, captured, frames, outDirExists, files, keep,
                   batch, idx, dirAtStart, listing, finalsAtStart, probeOut, probeCount,
                   decOut, moveOut, moved, deletedBy, delFailed, retryOf, verifyRes,
                   published>>

\* encode_frames, line 112: ffmpeg starts and writes to its output path (-y
\* overwrites what is there); or it cannot be started (OSError), which leaves
\* encode_frames through its finally and main through except.
EncodeStart(r) ==
    /\ UNCHANGED <<monVars, schedVars>>
    /\ pc[r] = "ffmpeg"
    /\ \/ /\ files' = [files EXCEPT ![EncodeOutputPath(r, batch[r])] =
                                        PartialVideo(batch[r])]
          /\ pc' = [pc EXCEPT ![r] = "encoding"]
          /\ UNCHANGED <<listFile, ret, encOut>>
       \/ /\ UNCHANGED files
          /\ listFile' = UnlinkListFile(listFile, r)
          /\ encOut' = [encOut EXCEPT ![r] = "oserror"]
          /\ ret' = [ret EXCEPT ![r] = ExitFail]
          /\ pc' = [pc EXCEPT ![r] = "finally"]
    /\ UNCHANGED <<dirExists, captured, frames, outDirExists, keep, batch, idx,
                   dirAtStart, listing, finalsAtStart, probeOut, probeCount, decOut, moveOut,
                   moved, deletedBy, delFailed, retryOf, verifyRes, published>>

\* encode_frames, lines 112-142: ffmpeg ends (exit 0, exit non-zero, or killed
\* at the 300 s timeout); the finally clause unlinks the list file. The video
\* holds a packet for every frame only if every frame of the list was there
\* to be read (another run may have deleted some).
EncodeEndWith(r, o) ==
    /\ UNCHANGED <<monVars, schedVars>>
    /\ pc[r] = "encoding"
    /\ o = "timeout" => EncodeHasTimeout
    /\ encOut' = [encOut EXCEPT ![r] = o]
    /\ IF o = "ok"
         THEN /\ \E v \in EncodedVideos(batch[r]) :
                    /\ v.packets = Len(batch[r]) => SeqSet(batch[r]) \subseteq frames
                    /\ files' = [files EXCEPT ![EncodeOutputPath(r, batch[r])] = v]
              /\ pc' = [pc EXCEPT ![r] = "probe"]
              /\ UNCHANGED ret
         ELSE /\ UNCHANGED files
              /\ ret' = [ret EXCEPT ![r] = ExitFail]
              /\ pc' = [pc EXCEPT ![r] = "finally"]
    /\ listFile' = UnlinkListFile(listFile, r)
    /\ UNCHANGED <<dirExists, captured, frames, outDirExists, keep, batch, idx,
                   dirAtStart, listing, finalsAtStart, probeOut, probeCount, decOut, moveOut,
                   moved, deletedBy, delFailed, retryOf, verifyRes, published>>

EncodeEnd(r) == \E o \in {"ok", "nonzero", "timeout"} : EncodeEndWith(r, o)

\* verify_video, lines 47-68: ffprobe counts the packets of tmp_path. With
\* outcome "ok" it reports the count the file holds.
VerifyProbeWith(r, o) ==
    /\ UNCHANGED <<monVars, schedVars>>
    /\ pc[r] = "probe"
    /\ o = "timeout" => ProbeHasTimeout
    /\   /\ probeOut' = [probeOut EXCEPT ![r] = o]
         /\ IF o = "ok"
              THEN /\ files[TmpPath(r)].exists
                   /\ probeCount' = [probeCount EXCEPT ![r] =
                                          files[TmpPath(r)].packets]
                   /\ IF CountMatches(files[TmpPath(r)].packets, Len(batch[r]))
                        THEN /\ pc' = [pc EXCEPT ![r] = "decode"]
                             /\ UNCHANGED <<ret, verifyRes>>
                        ELSE /\ pc' = [pc EXCEPT ![r] = "finally"]
                             /\ ret' = [ret EXCEPT ![r] = ExitFail]
                             /\ verifyRes' = [verifyRes EXCEPT ![r] = "false"]
              ELSE /\ UNCHANGED probeCount
                   /\ pc' = [pc EXCEPT ![r] = "finally"]
                   /\ ret' = [ret EXCEPT ![r] = ExitFail]
                   /\ verifyRes' = [verifyRes EXCEPT ![r] =
                          IF o \in ProbeCaught THEN "false" ELSE "raised"]
    /\ UNCHANGED <<fsVars, keep, batch, idx, dirAtStart, listing, finalsAtStart, encOut,
                   decOut, moveOut, moved, deletedBy, delFailed, retryOf,
                   published>>

VerifyProbe(r) == \E o \in ProbeOutcomes : VerifyProbeWith(r, o)

\* verify_video, lines 71-88: the full decode pass. It can end "ok" (exit 0,
\* empty stderr) only on a file that decodes cleanly.
VerifyDecodeWith(r, o) ==
    /\ UNCHANGED <<monVars, schedVars>>
    /\ pc[r] = "decode"
    /\ o = "timeout" => DecodeHasTimeout
    /\   /\ o = "ok" => (files[TmpPath(r)].exists /\ files[TmpPath(r)].clean)
         /\ decOut' = [decOut EXCEPT ![r] = o]
         /\ IF DecodePasses(o)
              THEN /\ pc' = [pc EXCEPT ![r] = StepAfterVerify(keep[r])]
                   /\ idx' = [idx EXCEPT ![r] = 1]
                   /\ verifyRes' = [verifyRes EXCEPT ![r] = "true"]
                   /\ UNCHANGED ret
              ELSE /\ pc' = [pc EXCEPT ![r] = "finally"]
                   /\ ret' = [ret EXCEPT ![r] = ExitFail]
                   /\ verifyRes' = [verifyRes EXCEPT ![r] =
                          IF o \in DecodeCaught THEN "false" ELSE "raised"]
                   /\ UNCHANGED idx
    /\ UNCHANGED <<fsVars, keep, batch, dirAtStart, listing, finalsAtStart, encOut,
                   probeOut, probeCount, moveOut, moved, deletedBy, delFailed, retryOf,
                   published>>

VerifyDecode(r) == \E o \in DecodeOutcomes : VerifyDecodeWith(r, o)

\* Line 240: shutil.move(tmp_path, output_file). It replaces what is at
\* output_file, or raises and changes nothing.
MainMove(r) ==
    /\ UNCHANGED <<monVars, schedVars>>
    /\ pc[r] = "move"
    /\ \/ /\ files[TmpPath(r)].exists
          /\ files' = [files EXCEPT ![FinalPath(batch[r])] = files[TmpPath(r)],
                                    ![TmpPath(r)] = NoFile]
          /\ moved' = [moved EXCEPT ![r] = TRUE]
          /\ moveOut' = [moveOut EXCEPT ![r] = "ok"]
          /\ published' = published \cup
                 {[run |-> r, path |-> FinalPath(batch[r]), batch |-> batch[r],
                   verified |-> Verified(r)]}
          /\ pc' = [pc EXCEPT ![r] = StepAfterMove(keep[r])]
          /\ ret' = [ret EXCEPT ![r] = IF keep[r] THEN ExitOk ELSE ret[r]]
       \/ /\ UNCHANGED <<files, moved, published>>
          /\ moveOut' = [moveOut EXCEPT ![r] = "oserror"]
          /\ pc' = [pc EXCEPT ![r] = "finally"]
          /\ ret' = [ret EXCEPT ![r] = ExitFail]
    /\ UNCHANGED <<dirExists, captured, frames, outDirExists, listFile, keep,
                   batch, idx, dirAtStart, listing, finalsAtStart, encOut, probeOut,
                   probeCount, decOut, deletedBy, delFailed, retryOf, verifyRes>>

\* safe_delete_frames, lines 151-155: one iteration of the loop. frame.unlink()
\* removes the file or raises (always when the file is gone); the exception is
\* recorded and the loop goes on. After the last frame main returns 0.
DeleteFrame(r) ==
    /\ UNCHANGED <<monVars, schedVars>>
    /\ pc[r] = "delete"
    /\ idx[r] <= Len(DeleteList(batch[r], frames))
    /\ LET todo == DeleteList(batch[r], frames)
           f == todo[idx[r]] IN
       \E ok \in BOOLEAN :
         /\ ok => f \in frames
         /\ frames' = IF ok THEN frames \ {f} ELSE frames
         /\ deletedBy' = [deletedBy EXCEPT ![r] = IF ok THEN @ \cup {f} ELSE @]
         /\ delFailed' = [delFailed EXCEPT ![r] = IF ok THEN @ ELSE @ \cup {f}]
         /\ LET n == NextIndex(idx[r], ok, Len(todo)) IN
              /\ idx' = [idx EXCEPT ![r] = n]
              /\ IF n > Len(todo)
                   THEN /\ pc' = [pc EXCEPT ![r] = "finally"]
                        /\ ret' = [ret EXCEPT ![r] = ExitOk]
                   ELSE UNCHANGED <<pc, ret>>
    /\ UNCHANGED <<dirExists, captured, outDirExists, files, listFile, keep,
                   batch, dirAtStart, listing, finalsAtStart, encOut, probeOut, probeCount,
                   decOut, moveOut, moved, retryOf, verifyRes, published>>

\* Lines 256-258: finally, tmp_path.unlink(missing_ok=True); main returns.
MainFinally(r) ==
    /\ UNCHANGED <<monVars, schedVars>>
    /\ pc[r] = "finally"
    /\ files' = UnlinkTmp(files, r)
    /\ pc' = [pc EXCEPT ![r] = "done"]
    /\ UNCHANGED <<dirExists, captured, frames, outDirExists, listFile, ret,
                   keep, batch, idx, histVars>>

\* The process is killed (SIGKILL, power loss) at any step: nothing more runs,
\* not even the finally clauses.
Kill(r) ==
    /\ UNCHANGED <<monVars, schedVars>>
    /\ pc[r] \in Running
    /\ pc' = [pc EXCEPT ![r] = "killed"]
    /\ UNCHANGED <<fsVars, ret, keep, batch, idx, histVars>>

\* The runs of one behaviour do not overlap: a run starts only when every
\* earlier run has ended.
NoneRunning == \A q \in Runs : pc[q] \notin Running

Next ==
    \/ MonitorSetup
    \/ SaveImage
    \/ \E r \in Runs : NoneRunning /\ MainListFrames(r)
    \/ \E r \in Runs : MainMkdir(r)
    \/ \E r \in Runs : MainMkTemp(r)
    \/ \E r \in Runs : EncodeWriteList(r)
    \/ \E r \in Runs : EncodeStart(r)
    \/ \E r \in Runs : EncodeEnd(r)
    \/ \E r \in Runs : VerifyProbe(r)
    \/ \E r \in Runs : VerifyDecode(r)
    \/ \E r \in Runs : MainMove(r)
    \/ \E r \in Runs : DeleteFrame(r)
    \/ \E r \in Runs : MainFinally(r)
    \/ \E r \in Runs : Kill(r)

Spec == Init /\ [][Next]_vars

\* Runs that overlap: trigger_encoding starts each job as a detached process
\* and nothing keeps a job from starting while another is at work.
NextOverlap ==
    \/ MonitorSetup
    \/ SaveImage
    \/ \E r \in Runs : MainListFrames(r)
    \/ \E r \in Runs : MainMkdir(r)
    \/ \E r \in Runs : MainMkTemp(r)
    \/ \E r \in Runs : EncodeWriteList(r)
    \/ \E r \in Runs : EncodeStart(r)
    \/ \E r \in Runs : EncodeEnd(r)
    \/ \E r \in Runs : VerifyProbe(r)
    \/ \E r \in Runs : VerifyDecode(r)
    \/ \E r \in Runs : MainMove(r)
    \/ \E r \in Runs : DeleteFrame(r)
    \/ \E r \in Runs : MainFinally(r)
    \/ \E r \in Runs : Kill(r)

SpecOverlap == Init /\ [][NextOverlap]_vars

\* ---- run_monitoring_loop ----
jobVars == <<dirExists, captured, frames, outDirExists, files, listFile, pc, ret,
             keep, batch, idx, histVars>>

\* trigger_encoding(): one call; the job runs only if Popen started it, and
\* the call returns without waiting for it.
TriggerEncoding(called, lo) ==
    /\ triggers' = IF called THEN triggers + 1 ELSE triggers
    /\ launched' = IF called /\ lo = "started" THEN launched + 1 ELSE launched
    /\ jobsRunning' = IF called /\ lo = "started" THEN jobsRunning + 1
                      ELSE jobsRunning

\* run_monitoring_loop, lines 221-226: the locals are set and the job is
\* triggered once, before the first poll. setup() has made the directory.
MonitorStart ==
    /\ monPc = "off"
    /\ dirExists
    /\ monPc' = "loop"
    /\ last_hash' = NoHash
    /\ printer_was_offline' = FALSE
    /\ frame_count' = 0
    /\ \E lo \in LaunchOutcomes : TriggerEncoding(TRUE, lo)
    /\ UNCHANGED <<lastSaved, poll, jobVars, schedVars>>

\* One iteration of the loop, lines 229-280: fetch, hash, save when the hash
\* differs, count, trigger, sleep. The frame file save_image writes is
\* recorded by the hash of its snapshot.
Poll ==
    /\ monPc = "loop"
    /\ \E img \in {NoSnapshot} \cup Images, hashOk \in BOOLEAN,
          saveOk \in BOOLEAN, lo \in LaunchOutcomes :
         LET fetched == img # NoSnapshot
             current == calculate_image_hash(img)
             attempt == fetched /\ hashOk /\ ImageChanged(current, last_hash)
             saved   == attempt /\ saveOk
             count   == IF saved THEN frame_count + 1 ELSE frame_count
             trig    == fetched /\ hashOk /\ ShouldTrigger(saved, count)
             outcome == IF ~fetched THEN "offline"
                        ELSE IF ~hashOk THEN "hasherror"
                        ELSE IF ~attempt THEN "unchanged"
                        ELSE IF ~saved THEN "savefailed"
                        ELSE "saved"
         IN  /\ count <= MaxSaved
             /\ printer_was_offline' = ~fetched
             /\ last_hash' = IF fetched /\ hashOk
                             THEN RememberHash(saved, current, last_hash)
                             ELSE last_hash
             /\ frame_count' = count
             /\ lastSaved' = IF saved THEN current ELSE lastSaved
             /\ TriggerEncoding(trig, lo)
             /\ poll' = [outcome |-> outcome, image |-> img,
                         prevHash |-> last_hash, prevCount |-> frame_count,
                         triggered |-> trig]
    /\ UNCHANGED <<monPc, jobVars, schedVars>>

\* A job that trigger_encoding started has ended: main() returned or the
\* process was killed.
JobExit ==
    /\ jobsRunning > 0
    /\ jobsRunning' = jobsRunning - 1
    /\ UNCHANGED <<monPc, last_hash, printer_was_offline, frame_count, triggers,
                   launched, lastSaved, poll, jobVars, schedVars>>

\* KeyboardInterrupt: the loop returns 0; the jobs, started in sessions of
\* their own, go on.
MonitorStop ==
    /\ monPc = "loop"
    /\ monPc' = "stopped"
    /\ UNCHANGED <<last_hash, printer_was_offline, frame_count, triggers,
                   launched, jobsRunning, lastSaved, poll, jobVars, schedVars>>

MonitorNext ==
    \/ MonitorSetup
    \/ MonitorStart
    \/ Poll
    \/ JobExit
    \/ MonitorStop

MonitorSpec == Init /\ [][MonitorNext]_vars

\* ---- speed_scheduler ----
\* Times of the day at which the loop can be entered.
StartTimes == {RequestTimeout * k : k \in 0..((SecondsPerDay \div RequestTimeout) - 1)}

\* The end of the minute TARGET_HOUR:00, as a time of day.
TargetMinuteEnd(target) == (target * MinutesPerHour + 1) * SecondsPerMinute

\* main() and run_scheduler, lines 113-120: setup() has passed; the nighttime
\* command is sent once, and whether or not the printer accepted it the loop
\* is entered with the flag cleared.
SchedStart ==
    /\ schedPc = "off"
    /\ \E target \in TargetHours, t \in StartTimes, ok \in BOOLEAN :
         /\ TARGET_HOUR' = target
         /\ now' = t
         /\ nightOk' = ok
         /\ printerSpeed' = IF ok THEN NIGHTTIME_SPEED ELSE printerSpeed
         /\ covered' = (t < TargetMinuteEnd(target))
    /\ schedPc' = "loop"
    /\ nightSent' = nightSent + 1
    /\ speed_changed' = FALSE
    /\ UNCHANGED <<daySent, dayOk, dayFailed, okDays, clockChanges, slept,
                   monVars, jobVars>>

\* One iteration of the loop, lines 124-140: read the clock, send the daytime
\* command when it is due, reset the flag when that is due, sleep.
SchedPoll ==
    /\ schedPc = "loop"
    /\ \E ok \in BOOLEAN, d \in RequestDurations :
         LET h       == Hour(now)
             m       == Minute(now)
             send    == ShouldSend(h, m, speed_changed, TARGET_HOUR)
             changed == IF send /\ ok THEN TRUE ELSE speed_changed
             reset   == ShouldReset(h, m, changed, TARGET_HOUR)
             next    == now + (IF send THEN d ELSE 0) + SleepSeconds
             newDay  == Day(next) # Day(now)
         IN  /\ next < MaxDays * SecondsPerDay
             /\ ~send => (ok /\ d = 0)
             /\ speed_changed' = IF reset THEN FALSE ELSE changed
             /\ printerSpeed' = IF send /\ ok THEN DAYTIME_SPEED ELSE printerSpeed
             /\ daySent' = IF newDay THEN 0 ELSE IF send THEN daySent + 1 ELSE daySent
             /\ dayOk' = IF newDay THEN 0 ELSE IF send /\ ok THEN dayOk + 1 ELSE dayOk
             /\ dayFailed' = IF newDay THEN 0
                             ELSE IF send /\ ~ok THEN dayFailed + 1 ELSE dayFailed
             /\ okDays' = IF send /\ ok /\ dayOk = 0 THEN okDays + 1 ELSE okDays
             /\ covered' = (covered \/ newDay)
             /\ now' = next
             /\ slept' = TRUE
    /\ UNCHANGED <<schedPc, TARGET_HOUR, nightSent, nightOk, clockChanges,
                   monVars, jobVars>>

\* KeyboardInterrupt: run_scheduler returns 0.
SchedStop ==
    /\ schedPc = "loop"
    /\ schedPc' = "stopped"
    /\ UNCHANGED <<TARGET_HOUR, now, speed_changed, printerSpeed, nightSent,
                   nightOk, daySent, dayOk, dayFailed, covered, okDays,
                   clockChanges, slept, monVars, jobVars>>

\* datetime.now() is the local wall clock: during the sleep that has just
\* ended a whole hour began, and at that moment local time was set one hour
\* forward or one hour back (daylight saving), within the same calendar day.
ClockChange ==
    /\ schedPc = "loop"
    /\ clockChanges < MaxClockChanges
    /\ slept
    /\ now % SecondsPerHour < SleepSeconds
    /\ \E shifted \in {now + SecondsPerHour, now - SecondsPerHour} :
         /\ shifted >= 0
         /\ Day(shifted) = Day(now)
         /\ now' = shifted
    /\ clockChanges' = clockChanges + 1
    /\ UNCHANGED <<schedPc, TARGET_HOUR, speed_changed, printerSpeed, nightSent,
                   nightOk, daySent, dayOk, dayFailed, covered, okDays, slept,
                   monVars, jobVars>>

SchedNext ==
    \/ SchedStart
    \/ SchedPoll
    \/ ClockChange
    \/ SchedStop

SchedSpec == Init /\ [][SchedNext]_vars

\* The steps main() takes by itself, which need no external tool to end.
OwnStep(r) ==
    \/ MainMkdir(r)
    \/ MainMkTemp(r)
    \/ EncodeWriteList(r)
    \/ EncodeStart(r)
    \/ MainMove(r)
    \/ DeleteFrame(r)
    \/ MainFinally(r)

\* The timer of a subprocess.run(..., timeout=...) fires.
TimerStep(r) ==
    \/ EncodeEndWith(r, "timeout")
    \/ VerifyProbeWith(r, "timeout")
    \/ VerifyDecodeWith(r, "timeout")

\* Scheduling: a run that is not killed goes on taking its own steps, and the
\* timer of subprocess.run fires when a tool call has not ended by then. That
\* a tool ends by itself is not assumed.
\* A run is at one place at a time, so one condition per run covers them.
Fairness == \A r \in Runs : WF_vars(OwnStep(r) \/ TimerStep(r))

FairSpec == Spec /\ Fairness

\* ======================= properties =======================
TypeOK ==
    /\ frames \subseteq 1..captured
    /\ captured \in 0..MaxFrames
    /\ \A r \in Runs : ret[r] \in {ExitOk, ExitFail, NoRet}
    /\ \A r \in Runs : pc[r] \in Running \cup Terminal \cup {"init"}

\* No file at a final video path differs from what was there when run r
\* listed the frames.
FinalsUntouched(r) == \A p \in FinalPaths : files[p] = finalsAtStart[r][p]

\* verify_video did not return True in run r: a probe failure, a count
\* mismatch, or a decode failure.
VerifyFailed(r) ==
    \/ probeOut[r] \notin {"none", "ok"}
    \/ probeOut[r] = "ok" /\ probeCount[r] # Len(batch[r])
    \/ decOut[r] \notin {"none", "ok"}

\* The N oldest frames of what run r listed.
OldestN(r) ==
    LET all == get_sorted_frames(listing[r])
    IN  SubSeq(all, 1, IF Len(all) < ReqCount THEN Len(all) ELSE ReqCount)

\* C1: in every step of every behaviour, killed runs included, a frame leaves
\* the directory only by the delete loop of a run whose shutil.move has
\* already returned.
C1_DeleteOnlyAfterMove ==
    [][\A f \in frames \ frames' :
          \E r \in Runs : /\ moved[r]
                          /\ pc[r] = "delete"
                          /\ deletedBy'[r] = deletedBy[r] \cup {f}]_vars

\* C1 witness: a run killed inside the delete loop, after its move, with a
\* frame already deleted.
C1_Witness ==
    \E r \in Runs : pc[r] = "killed" /\ moved[r] /\ deletedBy[r] # {}
                    /\ idx[r] <= Len(batch[r])

\* C2: when the probe reports a count other than the batch size, or the decode
\* pass exits non-zero or writes diagnostics, the run has moved nothing to a
\* final path, has deleted no frame, and if it returns it returns 1.
C2_FailClosed ==
    \A r \in Runs :
      (\/ probeOut[r] = "ok" /\ probeCount[r] # Len(batch[r])
       \/ decOut[r] \in {"nonzero", "stderr"})
      => /\ ~moved[r]
         /\ FinalsUntouched(r)
         /\ deletedBy[r] = {}
         /\ listing[r] \subseteq frames
         /\ pc[r] \in {"finally", "done", "killed"}
         /\ ret[r] = ExitFail

\* C2 witness: a run that ended after the probe reported one packet too few.
C2_Witness ==
    \E r \in Runs : /\ pc[r] = "done"
                    /\ probeOut[r] = "ok"
                    /\ probeCount[r] + 1 = Len(batch[r])
                    /\ ret[r] = ExitFail

\* C3: a run that ended after the encode exited non-zero or timed out, or after
\* verification failed, returned 1; its temporary video is gone, no final
\* path was created or replaced, and every frame it listed is still there.
C3_FailureLeavesNothing ==
    \A r \in Runs :
      (pc[r] = "done" /\ (encOut[r] \in {"nonzero", "timeout"} \/ VerifyFailed(r)))
      => /\ ret[r] = ExitFail
         /\ ~files[TmpPath(r)].exists
         /\ FinalsUntouched(r)
         /\ listing[r] \subseteq frames

\* C3 witness: a run that ended after the encode timed out, having left a
\* partial temporary video before its cleanup.
C3_Witness ==
    \E r \in Runs : pc[r] = "done" /\ encOut[r] = "timeout" /\ ret[r] = ExitFail

\* C4 (as claimed): a run that goes on to encode has selected exactly the N
\* oldest frames of its listing, and deletes none of the others.
C4_BatchIsOldestN ==
    \A r \in Runs :
      pc[r] \in Running
      => /\ Len(batch[r]) = ReqCount
         /\ batch[r] = OldestN(r)
         /\ deletedBy[r] \subseteq SeqSet(OldestN(r))

\* C5: a run that found the directory with fewer than N frames ended with
\* exit status 0 without encoding, without creating a temporary or final
\* video and without deleting a frame.
C5_TooFewFramesIsNoOp ==
    \A r \in Runs :
      (pc[r] \notin {"init", "gone"} /\ dirAtStart[r]
          /\ Cardinality(listing[r]) < ReqCount)
      => /\ pc[r] = "done"
         /\ ret[r] = ExitOk
         /\ encOut[r] = "none"
         /\ ~files[TmpPath(r)].exists
         /\ FinalsUntouched(r)
         /\ deletedBy[r] = {}
         /\ listing[r] \subseteq frames

\* C5 witness: a run over a directory holding one frame fewer than required.
C5_Witness ==
    \E r \in Runs : /\ pc[r] = "done"
                    /\ dirAtStart[r]
                    /\ Cardinality(listing[r]) + 1 = ReqCount
                    /\ ret[r] = ExitOk

\* C6: every file at a final video path is a finished video with one packet
\* per frame of its batch that decodes cleanly, and was put there by a move
\* made after verify_video returned True in the same run.
C6_FinalVideosVerified ==
    \A p \in FinalPaths :
      files[p].exists
      => /\ GoodVideo(files[p])
         /\ \E rec \in published : /\ rec.path = p
                                   /\ rec.batch = files[p].batch
                                   /\ rec.verified

\* C6 witness: a video is at a final path while a later run is encoding.
C6_Witness ==
    \E p \in FinalPaths, r \in Runs : files[p].exists /\ pc[r] = "encoding"

\* C7 (as claimed): two moves that published different batches went to
\* different final paths.
C7_DifferentBatchesNeverCollide ==
    \A a, b \in published : a.batch # b.batch => a.path # b.path

\* C8: a run without --keep-frames that ended after its move attempted the
\* unlink of every frame of the batch: every frame whose unlink did not raise
\* is gone, the video is at its final path, and the run returned 0.
C8_BestEffortDelete ==
    \A r \in Runs :
      (pc[r] = "done" /\ moved[r] /\ ~keep[r])
      => /\ ret[r] = ExitOk
         /\ files[FinalPath(batch[r])].exists
         /\ files[FinalPath(batch[r])].batch = batch[r]
         /\ deletedBy[r] \cup delFailed[r] = SeqSet(batch[r])
         /\ deletedBy[r] \cap delFailed[r] = {}
         /\ deletedBy[r] \cap frames = {}

\* C8 witness: the unlink of the first frame raised and a later frame was
\* deleted all the same.
C8_Witness ==
    \E r \in Runs : /\ pc[r] = "done" /\ moved[r] /\ ~keep[r]
                    /\ Head(batch[r]) \in delFailed[r]
                    /\ deletedBy[r] # {}
                    /\ ret[r] = ExitOk

\* C9 (as claimed): no run ends with an exception leaving main.
C9_NoExceptionLeavesMain ==
    \A r \in Runs : pc[r] # "raised"

\* Every step of run r that can fail went well.
NoStepFailed(r) ==
    /\ encOut[r] = "ok"
    /\ Verified(r)
    /\ moveOut[r] # "oserror"
    /\ delFailed[r] = {}

\* C10: a run that failed at encode or verification leaves no temporary video
\* and no list file; and the next run over the same frames, when none of its
\* own steps fails, publishes the verified video of those frames, returns 0
\* and (without --keep-frames) deletes them.
C10_RetrySucceeds ==
    \A r \in Runs :
      /\ FailedAtEncodeOrVerify(r)
           => ~files[TmpPath(r)].exists /\ ~listFile[r]
      /\ (retryOf[r] /\ pc[r] = "done" /\ NoStepFailed(r))
           => /\ moved[r]
              /\ ret[r] = ExitOk
              /\ GoodVideo(files[FinalPath(batch[r])])
              /\ files[FinalPath(batch[r])].batch = batch[r]
              /\ SeqSet(batch[r]) = listing[r]
              /\ ~keep[r] => SeqSet(batch[r]) \cap frames = {}

\* C10 witness: a retry that published and deleted its frames.
C10_Witness ==
    \E r \in Runs : /\ retryOf[r] /\ pc[r] = "done" /\ NoStepFailed(r)
                    /\ ~keep[r] /\ moved[r]
                    /\ listing[r] \cap frames = {}

\* C11 (as claimed): whatever way the metadata probe fails among those the
\* claim lists (non-zero exit, timeout, unparseable JSON, a missing field, an
\* empty stream list, a non-integer count), verify_video is left with the
\* result False: it neither returns True nor raises.
C11_ProbeFailureIsFalse ==
    \A r \in Runs :
      probeOut[r] \in {"nonzero", "timeout", "badjson", "keyerror",
                       "indexerror", "valueerror"}
      => verifyRes[r] = "false"

\* C12: a run with --keep-frames deletes no frame at any time; when its
\* encode and its verification succeeded and the move did not fail, it ended
\* with the verified video of its batch at the final path, every listed frame
\* still present, and exit status 0.
C12_KeepFrames ==
    \A r \in Runs :
      keep[r]
      => /\ deletedBy[r] = {}
         /\ delFailed[r] = {}
         /\ listing[r] \subseteq frames
         /\ (pc[r] = "done" /\ encOut[r] = "ok" /\ verifyRes[r] = "true"
                /\ moveOut[r] # "oserror")
              => /\ moved[r]
                 /\ GoodVideo(files[FinalPath(batch[r])])
                 /\ files[FinalPath(batch[r])].batch = batch[r]
                 /\ ret[r] = ExitOk

\* C12 witness: a --keep-frames run that published and returned 0 with its
\* whole batch still in the directory.
C12_Witness ==
    \E r \in Runs : /\ keep[r] /\ pc[r] = "done" /\ moved[r]
                    /\ ret[r] = ExitOk
                    /\ batch[r] # <<>>
                    /\ SeqSet(batch[r]) \subseteq frames

\* C15: every frame a run has deleted belongs to the batch the run listed,
\* encoded, verified and moved; a frame the capture process wrote after the
\* run's listing is never among them.
C15_DeletesOnlyItsBatch ==
    \A r \in Runs :
      /\ deletedBy[r] \subseteq SeqSet(batch[r])
      /\ deletedBy[r] \subseteq listing[r]
      /\ deletedBy[r] # {}
           => /\ verifyRes[r] = "true"
              /\ \E rec \in published : rec.run = r /\ rec.batch = batch[r]

\* C15 witness: a frame written while the run was at work is still there
\* after the run deleted its batch and ended.
C15_Witness ==
    \E r \in Runs : /\ pc[r] = "done"
                    /\ deletedBy[r] = listing[r]
                    /\ deletedBy[r] # {}
                    /\ frames \ listing[r] # {}

\* C16: once encode_frames has been left after its ffmpeg call (exit 0, exit
\* non-zero, timeout, or an exception while starting the tool), its list file
\* does not exist.
C16_ListFileRemoved ==
    \A r \in Runs : encOut[r] \in EncodeOutcomes => ~listFile[r]

\* C16 witness: encode_frames was left by the timeout, after the list file
\* had been written and ffmpeg had started.
C16_Witness ==
    \E r \in Runs : pc[r] = "finally" /\ encOut[r] = "timeout"
                    /\ files[TmpPath(r)] = PartialVideo(batch[r])

\* The frames that were written and are no longer in the directory.
DeletedFrames == (1..captured) \ frames

\* C18 (as claimed): every frame that has been deleted is contained in a
\* video that exists at a final path.
C18_DeletedFramesAreInAVideo ==
    \A f \in DeletedFrames :
      \E p \in FinalPaths : files[p].exists /\ f \in SeqSet(files[p].batch)

\* A tool call of run r ended by its timeout.
TimedOut(r) ==
    encOut[r] = "timeout" \/ probeOut[r] = "timeout" \/ decOut[r] = "timeout"

\* C17: every run that has started ends (main returns, an exception leaves
\* it, or the process is killed), although no tool is assumed to end by
\* itself: whenever a run is at work, a state follows in which none is, and
\* a run that has left "init" and is not at work has ended. A run in which a
\* tool call timed out has published nothing, deleted nothing and returns 1.
C17_RunsTerminate ==
    /\ (\E r \in Runs : pc[r] \in Running) ~> (\A r \in Runs : pc[r] \notin Running)
    /\ [](\A r \in Runs :
            TimedOut(r) => /\ ~moved[r]
                           /\ FinalsUntouched(r)
                           /\ deletedBy[r] = {}
                           /\ ret[r] = ExitFail
                           /\ pc[r] \in {"finally", "done", "killed"})

\* C17 witness: a run that returned 1 after the decode pass timed out.
C17_Witness ==
    \E r \in Runs : pc[r] = "done" /\ decOut[r] = "timeout" /\ ret[r] = ExitFail

\* C19 (as claimed): when the runs of a behaviour overlapped and all have
\* returned, every frame that was deleted is contained in a video that
\* exists at a final path.
C19_OverlapLosesNoFrame ==
    (\A r \in Runs : pc[r] = "done")
    => \A f \in DeletedFrames :
         \E p \in FinalPaths : files[p].exists /\ f \in SeqSet(files[p].batch)

\* C13 (as claimed): the monitor starts an encoding job only when no job it
\* started earlier is still running.
C13_MonitorSerializes ==
    [][launched' > launched => jobsRunning = 0]_vars

\* C14: trigger_encoding is called once at startup and once more each time
\* the count of saved frames reaches a multiple of 240, so that the calls
\* made are 1 + frame_count div 240; an iteration that saved nothing (no
\* snapshot, hash error, unchanged, save failed) made no call, an iteration
\* that saved made one exactly when the count reached a multiple; a call
\* starts at most one job; and the loop can always go on to the next
\* iteration, jobs running or not.
C14_TriggerEvery240 ==
    /\ monPc = "off" => triggers = 0
    /\ monPc # "off" => triggers = 1 + (frame_count \div TriggerEvery)
    /\ poll.outcome \in {"offline", "hasherror", "unchanged", "savefailed"}
          => ~poll.triggered
    /\ poll.outcome = "saved"
          => (poll.triggered <=> frame_count % TriggerEvery = 0)
    /\ launched <= triggers
    /\ monPc = "loop" => ENABLED Poll

\* C14 witness: the save that made the count 480 triggered the third call,
\* while a job started earlier is still running.
C14_Witness ==
    /\ poll.outcome = "saved" /\ poll.triggered
    /\ frame_count = 2 * TriggerEvery
    /\ triggers = 3
    /\ jobsRunning > 0

\* C20: the remembered hash is the hash of the snapshot last written; a
\* fetched snapshot whose hash was computed was handed to save_image exactly
\* when that hash differed from the remembered one; a save changed the
\* remembered hash and added one to the counter; a poll without a snapshot
\* and a failed save left both as they were, so that the snapshot of a
\* failed save still differs from the remembered hash.
C20_SaveOnlyChanged ==
    /\ last_hash = lastSaved
    /\ poll.outcome \in {"unchanged", "savefailed", "saved"}
          => (poll.outcome # "unchanged"
                <=> calculate_image_hash(poll.image) # poll.prevHash)
    /\ poll.outcome = "saved"
          => /\ last_hash = calculate_image_hash(poll.image)
             /\ last_hash # poll.prevHash
             /\ frame_count = poll.prevCount + 1
    /\ poll.outcome \in {"offline", "hasherror", "unchanged", "savefailed"}
          => last_hash = poll.prevHash /\ frame_count = poll.prevCount
    /\ poll.outcome = "savefailed"
          => ImageChanged(calculate_image_hash(poll.image), last_hash)

\* C20 witness: a save failed after an earlier snapshot had been saved.
C20_Witness ==
    /\ poll.outcome = "savefailed"
    /\ frame_count > 0
    /\ last_hash # NoHash

\* A daytime command was sent, or the printer's speed changed, in this step
\* of the loop.
DaytimeSent == schedPc = "loop" /\ (daySent' > daySent \/ printerSpeed' # printerSpeed)

\* What a step that sends a daytime command satisfies: it is taken by a poll
\* at TARGET_HOUR:00, on a day on which none was accepted yet, and sends one.
SendsOnlyWhenDue ==
    DaytimeSent => /\ Hour(now) = TARGET_HOUR
                   /\ Minute(now) = 0
                   /\ dayOk = 0
                   /\ daySent' = daySent + 1

\* What holds of the nighttime command, the flag and the day's commands.
OncePerDay ==
    /\ nightSent = (IF schedPc = "off" THEN 0 ELSE 1)
    /\ schedPc = "off" => daySent = 0 /\ okDays = 0
    /\ dayOk <= 1
    /\ daySent = dayOk + dayFailed
    /\ speed_changed
          => /\ dayOk = 1
             /\ TimeOfDay(now) < TargetMinuteEnd(TARGET_HOUR) + SecondsPerMinute
    /\ (schedPc # "off" /\ ~speed_changed /\ dayOk = 0
          /\ TimeOfDay(now) < TargetMinuteEnd(TARGET_HOUR))
          => ShouldSend(TARGET_HOUR, 0, speed_changed, TARGET_HOUR)
    /\ (schedPc # "off" /\ covered
          /\ TimeOfDay(now) >= TargetMinuteEnd(TARGET_HOUR))
          => /\ daySent >= 1
             /\ dayFailed = 0 => dayOk = 1

\* C21 (as claimed): the nighttime command is sent once, at startup, before
\* any daytime check, and the loop is entered whether or not it was accepted.
\* A daytime command is sent only by a poll at TARGET_HOUR:00 and only while
\* none was accepted that day, so that on no day more than one is accepted.
\* The flag is set only from an accepted command until TARGET_HOUR:02 at the
\* latest, so that a refused command is tried again by the next poll of that
\* minute and the next day starts with the flag cleared. On every day on
\* which the loop was running before TARGET_HOUR:01, a command has been sent
\* once that minute is over, and it was accepted if the printer refused none.
C21_DaytimeOncePerDay ==
    /\ [][SendsOnlyWhenDue]_vars
    /\ []OncePerDay

\* C21, as far as it holds: the same, for as long as the local clock has not
\* been set forward or back.
C21_WithoutClockChange ==
    /\ [][clockChanges' = 0 => SendsOnlyWhenDue]_vars
    /\ [](clockChanges = 0 => OncePerDay)

\* C21 witness: the nighttime command was refused; the loop has run into its
\* second day, a daytime command was accepted on both days, on the second
\* after one refusal, and the flag is cleared again.
C21_Witness ==
    /\ schedPc = "loop" /\ ~nightOk
    /\ clockChanges = 0
    /\ Day(now) = 1 /\ okDays = 2
    /\ dayOk = 1 /\ dayFailed = 1
    /\ ~speed_changed
    /\ printerSpeed = DAYTIME_SPEED

====
